---- MODULE Spec2Model ----
(***************************************************************************)
(* A model of yunyun (src/yunyun.py): the file-backed block store          *)
(* (class Interface) and the multiblock layer built on it (class           *)
(* MultiblockHandler and its MultiblockFileHandle).                        *)
(*                                                                         *)
(* The backing file is modelled byte for byte: a sequence of numbers in    *)
(* 0..255, file offset p being element p + 1.  Index headers and cells are *)
(* packed and unpacked with the layouts of the struct patterns, so every   *)
(* offset in the model is the offset the program computes.                 *)
(*                                                                         *)
(* Keys are tuples: <<>> is b'', <<"a">> a caller's key, and               *)
(* <<"INODEBLK", k, i>> the derived key of block i of node <<k>>.          *)
(* xxh64 is modelled as an injective numbering of the keys of the model:   *)
(* the store identifies a key with its hash (spec, section 3), and the     *)
(* statements checked here are about keys with different hashes.           *)
(***************************************************************************)
EXTENDS Integers, Sequences, FiniteSets, TLC

VARIABLES
    file,        \* the bytes of the backing file at self.path
    index_size,  \* self._index_size
    block_size,  \* self._block_size
    indexes,     \* self._indexes: cells per index segment
    handle,      \* self.key of the open MultiblockFileHandle, <<>> when none is open
    position,    \* the handle's self.position
    shadow,      \* ghost: key -> the value last written and not discarded since
    discards,    \* ghost: whether discardBlock ever succeeded
    content,     \* ghost: node -> the bytes its writes and truncates should leave
    shrunk,      \* ghost: node -> whether it was truncated to a smaller size since makeNode
    call,        \* the caller's place in a writeBlock that is taken step by step
    procs,       \* process -> its place in its constructor or in its call
    lock         \* the process that holds FileLock(path + '.lock'), 0 when none does

vars == <<file, index_size, block_size, indexes, handle, position,
          shadow, discards, content, shrunk, call, procs, lock>>

----------------------------------------------------------------------------
(* Bounds of the model. *)

\* Index sizes the store is constructed with (one and two cells per segment).
IndexSizes == {15, 31}
\* Block sizes the store is constructed with.
BlockSizes == {2}
\* The values callers write with writeBlock: shorter than a block, filling a
\* block, and longer than a block.
Values == {<<1>>, <<2, 1>>, <<1, 1, 1>>}
\* The values the properties try writeBlock with in every reachable state.
Probes == Values \cup {<<>>, <<1, 2>>}
\* The value callers write with hard = True (the block is written, not left
\* as a hole; the bytes of the file are the same).
HardValue == <<2, 1>>
\* Keys callers use with the block store.
Keys == {<<"a">>, <<"b">>, <<"c">>}
\* Node keys callers use with the multiblock layer.
Nodes == {<<"n">>}
\* The store the multiblock layer is explored on: two cells per index
\* segment, and blocks that hold exactly the metadata of a node whose size
\* and block count are below 256.
IndexSizesMB == {31}
BlockSizesMB == {46}
\* The positions a handle is taken to: the first bytes of the node, and the
\* last byte of block 0 with the first bytes of block 1.
Positions == {0, 1, 45, 46, 47}
\* The bytes callers write through a handle.
WriteValues == {<<1>>, <<2, 2>>}
\* The sizes callers truncate to (<<>> is None): within block 0, into block 1,
\* and one whose metadata is a byte longer.
TruncateSizes == {<<>>, <<0>>, <<1>>, <<47>>, <<256>>}
\* The longest read callers ask for.
MaxRead == 2
\* The last block index the properties look for derived blocks at.
LastBlock == 6
\* The sizes an existing file is opened again with.
ReopenIndexSizes == {15, 46}
ReopenBlockSizes == {1, 3}

\* Index sizes the store is constructed with where the loop of
\* requestFreeIndexCell is followed: below the size of a cell, one cell, two.
AllocIndexSizes == {14, 15, 31}
\* The calls of createIndex one requestFreeIndexCell is followed for.
MaxGrow == 3

\* The processes that share the backing file.
Procs == {1, 2}
\* The sizes two processes construct an Interface with on a path that has
\* no file yet, and the keys and values they then write.
OpenIndexSizes == {31}
OpenBlockSizes == {2}
OpenKeys == {<<"a">>, <<"b">>}
OpenValues == {<<1>>, <<2, 1>>}

\* The store two processes work on together, and the calls each makes: at
\* most MaxCalls per process, out of CallsMP.
IndexSizesMP == {31}
BlockSizesMP == {46}
MaxCalls == 2

Absent == <<-1>>

\* No writeBlock is being taken step by step.
Idle == [at |-> "idle", key |-> <<>>, value |-> <<>>, grown |-> 0, ret |-> 0]

----------------------------------------------------------------------------
(* Python helpers. *)

\* A value bound to a name: Let(e, LAMBDA x : body) is body with x the value
\* of e, which is computed once.
Let(v, F(_)) == F(v)

Min(a, b) == IF a < b THEN a ELSE b
Max(a, b) == IF a > b THEN a ELSE b

\* seq[a:b] for 0 <= a; b is clamped the way Python clamps a slice bound.
PySlice(seq, a, b) ==
    Let(IF b < 0 THEN Max(Len(seq) + b, 0) ELSE Min(b, Len(seq)), LAMBDA bb :
        IF bb <= a THEN <<>> ELSE SubSeq(seq, a + 1, bb))

\* b'\x00' * n
Zeros(n) == [i \in 1..n |-> 0] \o <<>>

\* math.ceil(a / b) and math.floor(a / b) for b > 0
CeilDiv(a, b) == -((-a) \div b)
FloorDiv(a, b) == a \div b

\* f.seek(pos); f.read(n): short at the end of the file
FRead(f, pos, n) == PySlice(f, pos, pos + n)

\* f.seek(pos); f.write(bytes): overwrites in place, extends the file as needed
FWrite(f, pos, bytes) ==
    SubSeq(f, 1, Min(pos, Len(f)))
        \o (IF pos > Len(f) THEN Zeros(pos - Len(f)) ELSE <<>>)
        \o bytes
        \o SubSeq(f, pos + Len(bytes) + 1, Len(f))

\* A faulty truncate: cuts, but does not extend the file.
FTruncateNoExtend(f, n) == IF n <= Len(f) THEN SubSeq(f, 1, n) ELSE f

\* f.truncate(n): cuts, or extends with zero bytes
FTruncate(f, n) == IF n <= Len(f) THEN SubSeq(f, 1, n) ELSE f \o Zeros(n - Len(f))

\* struct.pack of an unsigned little-endian integer of n bytes
RECURSIVE PackLE(_, _)
PackLE(x, n) == IF n = 0 THEN <<>> ELSE <<x % 256>> \o PackLE(x \div 256, n - 1)

\* struct.unpack of an unsigned little-endian integer
RECURSIVE UnpackLE(_)
UnpackLE(b) == IF b = <<>> THEN 0 ELSE b[1] + 256 * UnpackLE(Tail(b))

\* struct '?'
PackBool(b) == IF b THEN <<1>> ELSE <<0>>
UnpackBool(b) == b[1] # 0

----------------------------------------------------------------------------
(* Interface: the block store. *)

\* xxhash.xxh64(key).intdigest(), as an injective numbering of the model's keys
KeyNum(c) ==
    CASE c = "a" -> 1 [] c = "b" -> 2 [] c = "c" -> 3
      [] c = "n" -> 4 [] c = "m" -> 5
xxh64(key) ==
    IF key = <<>> THEN 255
    ELSE IF Len(key) = 1 THEN KeyNum(key[1])
    ELSE 256 + KeyNum(key[2]) * 4096 + key[3]

\* The fields of the object that the operations read and update.
Self(f, isz, bsz, n) == [f |-> f, index_size |-> isz, block_size |-> bsz, indexes |-> n]

\* The object with its file replaced.
WithFile(s, f) == [s EXCEPT !.f = f]

\* What a call gives back: the object afterwards, the exception raised
\* ("None" when the call returns) and the value returned.
Result(s, exc, ret) == [self |-> s, exc |-> exc, ret |-> ret]

\* struct.pack('<?IHH', bool(continuation), continuation, index_size, block_size)
constructIndex(s, continuation) ==
    PackBool(continuation # 0) \o PackLE(continuation, 4)
        \o PackLE(s.index_size, 2) \o PackLE(s.block_size, 2)

\* struct.pack('<?QIH', occupied, xxh64(key), seek, size)
constructIndexCell(occupied, key, seek, size) ==
    PackBool(occupied) \o PackLE(xxh64(key), 8) \o PackLE(seek, 4) \o PackLE(size, 2)

\* struct.unpack('<?IHH', index): <<has_continuation, continuation, index_size, block_size>>
readIndexHeader(index) ==
    <<UnpackBool(SubSeq(index, 1, 1)), UnpackLE(SubSeq(index, 2, 5)),
      UnpackLE(SubSeq(index, 6, 7)), UnpackLE(SubSeq(index, 8, 9))>>

\* struct.unpack('<?QIH', cell): <<occupied, key_hash, data_offset, data_length>>
\* (the tuple is 1-based here: cell[0] of the code is cell[1])
readIndexCell(cell) ==
    <<UnpackBool(SubSeq(cell, 1, 1)), UnpackLE(SubSeq(cell, 2, 9)),
      UnpackLE(SubSeq(cell, 10, 13)), UnpackLE(SubSeq(cell, 14, 15))>>

index_headersize == Len(constructIndex(Self(<<>>, 0, 0, 0), 0))
index_cellsize == Len(constructIndexCell(FALSE, <<>>, 0, 0))

\* The loop of getIndexes: follows the chain of headers from `pos`.
RECURSIVE WalkIndexes(_, _, _)
WalkIndexes(f, pos, acc) ==
    IF pos < Len(f)
    THEN Let(readIndexHeader(FRead(f, pos, index_headersize)), LAMBDA read :
             IF read[1] THEN WalkIndexes(f, read[2], Append(acc, <<pos, read>>))
             ELSE Append(acc, <<pos, read>>))
    ELSE acc

\* A faulty getIndexes: the object keeps the sizes it was constructed with.
getIndexesKeepSizes(s) == Result(s, "None", WalkIndexes(s.f, 0, <<>>))

\* getIndexes: the list of <<position, header>>, and the object with its sizes
\* set from the last header read.
getIndexes(s) ==
    Let(WalkIndexes(s.f, 0, <<>>), LAMBDA ixs :
        Result(IF ixs = <<>> THEN s
               ELSE Let(ixs[Len(ixs)][2], LAMBDA h :
                        Self(s.f, h[3], h[4], h[3] \div index_cellsize)),
               "None", ixs))

\* getIndexesCells: the (insertion ordered) dict as a sequence of <<pos, cell>>
getIndexesCells(s) ==
    Let(getIndexes(s), LAMBDA g :
        Result(g.self, "None",
               [j \in 1..(Len(g.ret) * g.self.indexes) |->
                   Let(g.ret[((j - 1) \div g.self.indexes) + 1][1] + index_headersize
                           + ((j - 1) % g.self.indexes) * index_cellsize,
                       LAMBDA pos : <<pos, readIndexCell(FRead(s.f, pos, index_cellsize))>>)]
               \o <<>>))

\* createIndex: link the last segment to the end of the file, append a segment
createIndex(s) ==
    Let(getIndexes(s), LAMBDA g :
        Let(IF Len(g.ret) > 0
            THEN FWrite(s.f, g.ret[Len(g.ret)][1], constructIndex(g.self, Len(s.f)))
            ELSE s.f,
            LAMBDA f1 :
        WithFile(g.self,
                 f1 \o constructIndex(g.self, 0)
                    \o ([i \in 1..(g.self.indexes * index_cellsize) |->
                           constructIndexCell(FALSE, <<>>, 0, 0)[((i - 1) % index_cellsize) + 1]]
                        \o <<>>))))

\* The scan of keyExists: the offset of the first cell (in the dict's order)
\* that is occupied and carries hash h, or 0.
FirstOccupied(cells, h) ==
    Let({i \in 1..Len(cells) : cells[i][2][2] = h /\ cells[i][2][1] = TRUE}, LAMBDA I :
        IF I = {} THEN 0 ELSE cells[CHOOSE i \in I : \A j \in I : i <= j][1])

\* A faulty scan: the offset of the last unoccupied cell, or 0.
LastFree(cells) ==
    Let({i \in 1..Len(cells) : cells[i][2][1] = FALSE}, LAMBDA I :
        IF I = {} THEN 0 ELSE cells[CHOOSE i \in I : \A j \in I : i >= j][1])

\* The scan of requestFreeIndexCell: the offset of the first unoccupied cell, or 0.
FirstFree(cells) ==
    Let({i \in 1..Len(cells) : cells[i][2][1] = FALSE}, LAMBDA I :
        IF I = {} THEN 0 ELSE cells[CHOOSE i \in I : \A j \in I : i <= j][1])

\* A faulty keyExists: only the cells of the first segment are scanned.
keyExistsFirstSegment(s, key) ==
    Let(getIndexesCells(s), LAMBDA g :
        Result(g.self, "None",
               FirstOccupied(SubSeq(g.ret, 1, Min(Len(g.ret), g.self.indexes)),
                             xxh64(key))))

\* keyExists: the offset of the first occupied cell with the key's hash, or 0
keyExists(s, key) ==
    Let(getIndexesCells(s), LAMBDA g :
        Result(g.self, "None", FirstOccupied(g.ret, xxh64(key))))

\* A faulty requestFreeIndexCell: grows the index before it looks for a cell.
requestFreeIndexCellGrowFirst(s) ==
    Let(getIndexesCells(createIndex(s)), LAMBDA g :
        Result(g.self, "None", FirstFree(g.ret)))

\* requestFreeIndexCell: the first unoccupied cell, growing the index until
\* there is one
RECURSIVE requestFreeIndexCell(_)
requestFreeIndexCell(s) ==
    Let(getIndexesCells(s), LAMBDA g :
        Let(FirstFree(g.ret), LAMBDA k :
            IF k # 0 THEN Result(g.self, "None", k)
            ELSE requestFreeIndexCell(createIndex(g.self))))

\* A faulty claimCell: a cell that never had a region gets its own offset as
\* data_offset.
claimCellAtCell(s, key_exists, key, hard) ==
    Let(readIndexCell(FRead(s.f, key_exists, index_cellsize)), LAMBDA cell :
        FWrite(s.f, key_exists,
               constructIndexCell(TRUE, key, IF cell[3] = 0 THEN key_exists ELSE cell[3],
                                  cell[4])))

\* writeBlock, the branch of a key that is not present: the free cell
\* key_exists gets the key's hash and a block region, a new one at the end of
\* the file when the cell never had one.
claimCell(s, key_exists, key, hard) ==
    Let(readIndexCell(FRead(s.f, key_exists, index_cellsize)), LAMBDA cell :
        IF cell[3] = 0
        THEN FWrite(IF hard THEN FWrite(s.f, Len(s.f), Zeros(s.block_size))
                    ELSE FTruncate(s.f, Len(s.f) + s.block_size),
                    key_exists, constructIndexCell(TRUE, key, Len(s.f), cell[4]))
        ELSE FWrite(s.f, key_exists, constructIndexCell(TRUE, key, cell[3], cell[4])))

\* A faulty storeValue: the cell keeps the data_length it had.
storeValueKeepLength(f, key_exists, key, value) ==
    Let(readIndexCell(FRead(f, key_exists, index_cellsize)), LAMBDA cell :
        FWrite(FWrite(f, key_exists,
                      constructIndexCell(cell[1], key, cell[3], cell[4])),
               cell[3], value))

\* writeBlock, its last part: the cell gets len(value), the block gets value
storeValue(f, key_exists, key, value) ==
    Let(readIndexCell(FRead(f, key_exists, index_cellsize)), LAMBDA cell :
        FWrite(FWrite(f, key_exists,
                      constructIndexCell(cell[1], key, cell[3], Len(value))),
               cell[3], value))

\* A faulty size test: one byte more than a block is let through.
tooLargeOffByOne(s, value) == Len(value) > s.block_size + 1

\* writeBlock, its first statement: the value does not fit a block
tooLarge(s, value) == Len(value) > s.block_size

writeBlock(s, key, value, hard) ==
    IF tooLarge(s, value)
    THEN Result(s, "WriteAboveBlockSize", <<>>)
    ELSE Let(keyExists(s, key), LAMBDA e :
         IF e.ret # 0
         THEN Result(WithFile(e.self, storeValue(e.self.f, e.ret, key, value)),
                     "None", <<>>)
         ELSE Let(requestFreeIndexCell(e.self), LAMBDA r :
              Result(WithFile(r.self,
                              storeValue(claimCell(r.self, r.ret, key, hard),
                                         r.ret, key, value)),
                     "None", <<>>)))

\* A faulty discardBlock: the cell stays occupied under the key's hash.
discardBlockKeepOccupied(s, key) ==
    Let(keyExists(s, key), LAMBDA e :
        IF e.ret # 0
        THEN Let(readIndexCell(FRead(s.f, e.ret, index_cellsize)), LAMBDA cell :
                 Result(WithFile(e.self,
                                 FWrite(s.f, e.ret,
                                        constructIndexCell(TRUE, key, cell[3], cell[4]))),
                        "None", <<>>))
        ELSE Result(e.self, "BlockNotFound", <<>>))

discardBlock(s, key) ==
    Let(keyExists(s, key), LAMBDA e :
        IF e.ret # 0
        THEN Let(readIndexCell(FRead(s.f, e.ret, index_cellsize)), LAMBDA cell :
                 Result(WithFile(e.self,
                                 FWrite(s.f, e.ret,
                                        constructIndexCell(FALSE, <<>>, cell[3], cell[4]))),
                        "None", <<>>))
        ELSE Result(e.self, "BlockNotFound", <<>>))

readBlock(s, key) ==
    Let(keyExists(s, key), LAMBDA e :
        IF e.ret # 0
        THEN Let(readIndexCell(FRead(s.f, e.ret, index_cellsize)), LAMBDA cell :
                 Result(e.self, "None", FRead(s.f, cell[3], cell[4])))
        ELSE Result(e.self, "BlockNotFound", <<>>))

\* Interface(path, index_size, block_size) on a path with no file: an empty
\* file is created and createIndex() writes the first segment.
newInterface(isz, bsz) == createIndex(Self(<<>>, isz, bsz, isz \div index_cellsize))

\* Interface(path, index_size, block_size) on the file f: a missing or empty
\* file gets its first segment, any other file is read for its sizes.
openInterface(f, isz, bsz) ==
    IF Len(f) = 0 THEN newInterface(isz, bsz)
    ELSE getIndexes(Self(f, isz, bsz, isz \div index_cellsize)).self

----------------------------------------------------------------------------
(* MultiblockHandler: nodes of many blocks on top of the block store. *)

\* The byte of a one-letter key, and the key of a byte.
Ord(c) == CASE c = "a" -> 97 [] c = "b" -> 98 [] c = "c" -> 99
            [] c = "m" -> 109 [] c = "n" -> 110
Chr(n) == CASE n = 97 -> "a" [] n = 98 -> "b" [] n = 99 -> "c"
            [] n = 109 -> "m" [] n = 110 -> "n"

\* b'INODEBLK' + sha256(key + struct.pack('<I', block)).digest(): the digest
\* is modelled as the pair it is taken of (sha256 taken as injective).
constructNodeBlockKey(key, block) == <<"INODEBLK", key[1], block>>

\* pickle's encoding of a non-negative int: BININT1, BININT2 or BININT
PickleInt(n) ==
    IF n < 256 THEN <<75, n>>
    ELSE IF n < 65536 THEN <<77>> \o PackLE(n, 2)
    ELSE <<74>> \o PackLE(n, 4)

\* The int that starts at element `at` of a pickle: <<value, elements taken>>
UnpickleInt(bytes, at) ==
    IF bytes[at] = 75 THEN <<bytes[at + 1], 2>>
    ELSE IF bytes[at] = 77 THEN <<UnpackLE(SubSeq(bytes, at + 1, at + 2)), 3>>
    ELSE <<UnpackLE(SubSeq(bytes, at + 1, at + 4)), 5>>

\* pickle.dumps({'key': key, 'blocks': blocks, 'size': size}) for a key of
\* one byte (protocol 4): PROTO, FRAME, then the dict's opcodes.
PickleBody(props) ==
    <<125, 148, 40, 140, 3, 107, 101, 121, 148, 67, 1, Ord(props.key[1]), 148,
      140, 6, 98, 108, 111, 99, 107, 115, 148>>
        \o PickleInt(props.blocks)
        \o <<140, 4, 115, 105, 122, 101, 148>>
        \o PickleInt(props.size)
        \o <<117, 46>>
pickle_dumps(props) ==
    Let(PickleBody(props), LAMBDA body :
        <<128, 4, 149>> \o PackLE(Len(body), 8) \o body)

\* pickle.loads of such a pickle
pickle_loads(bytes) ==
    Let(UnpickleInt(bytes, 34), LAMBDA blocks :
        [key |-> <<Chr(bytes[23])>>,
         blocks |-> blocks[1],
         size |-> UnpickleInt(bytes, 34 + blocks[2] + 7)[1]])

nodeExists(s, key) ==
    Let(keyExists(s, key), LAMBDA e : Result(e.self, "None", e.ret # 0))

getNodeProperties(s, key) ==
    Let(readBlock(s, key), LAMBDA r :
        IF r.exc # "None" THEN r
        ELSE Result(r.self, "None", pickle_loads(r.ret)))

setNodeProperties(s, key, properties) ==
    writeBlock(s, key, pickle_dumps(properties), FALSE)

makeNode(s, key) ==
    Let(nodeExists(s, key), LAMBDA e :
        IF e.ret THEN Result(e.self, "NodeExists", <<>>)
        ELSE setNodeProperties(e.self, key, [key |-> key, blocks |-> 0, size |-> 0]))

\* for block in range(block, stop): self.discardBlock(constructNodeBlockKey(key, block))
RECURSIVE discardBlocks(_, _, _, _)
discardBlocks(s, key, block, stop) ==
    IF block >= stop THEN Result(s, "None", <<>>)
    ELSE Let(discardBlock(s, constructNodeBlockKey(key, block)), LAMBDA d :
             IF d.exc # "None" THEN d
             ELSE discardBlocks(d.self, key, block + 1, stop))

removeNode(s, key) ==
    Let(nodeExists(s, key), LAMBDA e :
        IF ~e.ret THEN Result(e.self, "NodeDoesNotExist", <<>>)
        ELSE Let(getNodeProperties(e.self, key), LAMBDA details :
                 IF details.exc # "None" THEN details
                 ELSE Let(discardBlock(details.self, key), LAMBDA d :
                          IF d.exc # "None" THEN d
                          ELSE discardBlocks(d.self, key, 0, details.ret.blocks))))

\* getHandle: the key of the new handle (its position is 0)
getHandle(s, key) ==
    Let(nodeExists(s, key), LAMBDA e :
        IF e.ret THEN Result(e.self, "None", key)
        ELSE Result(e.self, "NodeDoesNotExist", <<>>))

----------------------------------------------------------------------------
(* MultiblockFileHandle: a handle of key `key` at position `pos`. *)

\* What a call on a handle gives back: as Result, and the handle's position.
HResult(s, exc, ret, pos) == [self |-> s, exc |-> exc, ret |-> ret, pos |-> pos]

length(s, key) ==
    Let(getNodeProperties(s, key), LAMBDA g :
        IF g.exc # "None" THEN g ELSE Result(g.self, "None", g.ret.size))

\* truncate, the loop that grows: blocks 0 .. final - 1 that are not present
\* are written as zeros
RECURSIVE allocateBlocks(_, _, _, _)
allocateBlocks(s, key, block, final) ==
    IF block >= final THEN Result(s, "None", <<>>)
    ELSE Let(keyExists(s, constructNodeBlockKey(key, block)), LAMBDA e :
             IF e.ret # 0 THEN allocateBlocks(e.self, key, block + 1, final)
             ELSE Let(writeBlock(e.self, constructNodeBlockKey(key, block),
                                 Zeros(e.self.block_size), FALSE), LAMBDA w :
                      IF w.exc # "None" THEN w
                      ELSE allocateBlocks(w.self, key, block + 1, final)))

\* truncate, its last part: the metadata gets the new size and block count
storeSize(s, key, size, final_blocks) ==
    Let(getNodeProperties(s, key), LAMBDA props :
        IF props.exc # "None" THEN props
        ELSE setNodeProperties(props.self, key,
                 [props.ret EXCEPT !.size = size, !.blocks = final_blocks]))

\* truncate(size); size_arg is <<>> for None
truncate(s, key, size_arg) ==
    Let(length(s, key), LAMBDA current_size :
        IF current_size.exc # "None" THEN current_size
        ELSE Let(IF size_arg = <<>> THEN current_size.ret ELSE size_arg[1], LAMBDA size :
             Let(CeilDiv(size, current_size.self.block_size), LAMBDA final_blocks :
             Let(CeilDiv(current_size.ret, current_size.self.block_size), LAMBDA current_blocks :
             Let(IF final_blocks > current_blocks
                 THEN allocateBlocks(current_size.self, key, 0, final_blocks)
                 ELSE IF final_blocks < current_blocks
                 THEN discardBlocks(current_size.self, key, final_blocks, current_blocks)
                 ELSE Result(current_size.self, "None", <<>>), LAMBDA a :
                 IF a.exc # "None" THEN a
                 ELSE storeSize(a.self, key, size, final_blocks))))))

\* _readrange, its loop: the blocks block .. end_block - 1 joined
RECURSIVE readBlocks(_, _, _, _, _)
readBlocks(s, key, block, end_block, acc) ==
    IF block >= end_block THEN Result(s, "None", acc)
    ELSE Let(readBlock(s, constructNodeBlockKey(key, block)), LAMBDA r :
             IF r.exc # "None" THEN r
             ELSE readBlocks(r.self, key, block + 1, end_block, acc \o r.ret))

readrange(s, key, start, end, pad) ==
    Let(FloorDiv(start, s.block_size), LAMBDA start_block :
    Let(readBlocks(s, key, start_block, CeilDiv(end, s.block_size), <<>>), LAMBDA final :
        IF final.exc # "None" \/ ~pad THEN final
        ELSE Let(start - start_block * final.self.block_size, LAMBDA clean_start :
                 Result(final.self, "None",
                        PySlice(final.ret, clean_start, clean_start + (end - start))))))

\* read, after size is known
readSized(s, key, pos, size) ==
    Let(readrange(s, key, pos, pos + size, TRUE), LAMBDA final :
        IF final.exc # "None" THEN HResult(final.self, final.exc, <<>>, pos)
        ELSE HResult(final.self, "None", final.ret, pos + size))

\* read(size); size_arg is <<>> for None
read(s, key, pos, size_arg) ==
    IF size_arg = <<>>
    THEN Let(length(s, key), LAMBDA l :
             IF l.exc # "None" THEN HResult(l.self, l.exc, <<>>, pos)
             ELSE readSized(l.self, key, pos, l.ret - pos))
    ELSE readSized(s, key, pos, size_arg[1])

\* A faulty splice: the new bytes go to the start of the buffer.
PySliceAssignAtStart(buf, a, b, new) ==
    new \o PySlice(buf, Min(Len(new), Len(buf)), Len(buf))

\* buf[a:b] = new on a bytearray, 0 <= a <= b
PySliceAssign(buf, a, b, new) ==
    PySlice(buf, 0, a) \o new \o PySlice(buf, Min(b, Len(buf)), Len(buf))

\* write, its loop: block by block, block_size bytes of the buffer from ipos
RECURSIVE writeChunks(_, _, _, _, _, _)
writeChunks(s, key, block, end_block, chunk_buffer, ipos) ==
    IF block >= end_block THEN Result(s, "None", <<>>)
    ELSE Let(writeBlock(s, constructNodeBlockKey(key, block),
                        PySlice(chunk_buffer, ipos, ipos + s.block_size), FALSE), LAMBDA w :
             IF w.exc # "None" THEN w
             ELSE writeChunks(w.self, key, block + 1, end_block, chunk_buffer,
                              ipos + s.block_size))

\* write, after the node was grown to hold position + len(b)
writeInPlace(s, key, pos, b) ==
    Let(FloorDiv(pos, s.block_size), LAMBDA start_block :
    Let(readrange(s, key, pos, pos + Len(b), FALSE), LAMBDA r :
        IF r.exc # "None" THEN HResult(r.self, r.exc, <<>>, pos)
        ELSE Let(pos - start_block * s.block_size, LAMBDA clean_start :
             Let(writeChunks(r.self, key, start_block,
                             CeilDiv(pos + Len(b), s.block_size),
                             PySliceAssign(r.ret, clean_start, clean_start + Len(b), b),
                             0), LAMBDA w :
                 IF w.exc # "None" THEN HResult(w.self, w.exc, <<>>, pos)
                 ELSE HResult(w.self, "None", Len(b), pos + Len(b))))))

write(s, key, pos, b) ==
    Let(length(s, key), LAMBDA l :
        IF l.exc # "None" THEN HResult(l.self, l.exc, <<>>, pos)
        ELSE IF l.ret < pos + Len(b)
        THEN Let(truncate(l.self, key, <<pos + Len(b)>>), LAMBDA t :
                 IF t.exc # "None" THEN HResult(t.self, t.exc, <<>>, pos)
                 ELSE writeInPlace(t.self, key, pos, b))
        ELSE writeInPlace(l.self, key, pos, b))

\* A faulty seek: a nonzero end-relative offset is added to the length.
seekEndRelative(s, key, pos, offset, whence) ==
    IF whence = 0 THEN HResult(s, "None", offset, offset)
    ELSE IF whence = 1 THEN HResult(s, "None", pos + offset, pos + offset)
    ELSE IF whence = 2
    THEN Let(length(s, key), LAMBDA l :
             IF l.exc # "None" THEN HResult(l.self, l.exc, <<>>, pos)
             ELSE HResult(l.self, "None", l.ret + offset, l.ret + offset))
    ELSE HResult(s, "None", pos, pos)

\* seek(offset, whence)
seek(s, key, pos, offset, whence) ==
    IF whence = 0 THEN HResult(s, "None", offset, offset)
    ELSE IF whence = 1 THEN HResult(s, "None", pos + offset, pos + offset)
    ELSE IF whence = 2
    THEN IF offset # 0 THEN HResult(s, "UnsupportedOperation", <<>>, pos)
         ELSE Let(length(s, key), LAMBDA l :
                  IF l.exc # "None" THEN HResult(l.self, l.exc, <<>>, pos)
                  ELSE HResult(l.self, "None", l.ret, l.ret))
    ELSE HResult(s, "None", pos, pos)

tell(pos) == pos

----------------------------------------------------------------------------
(* The state machine. *)

\* The object as the state holds it, and the state taking an object's fields.
Me == Self(file, index_size, block_size, indexes)

Install(s) ==
    /\ file' = s.f
    /\ index_size' = s.index_size
    /\ block_size' = s.block_size
    /\ indexes' = s.indexes

\* The cells of the index, as keyExists sees them.
Cells(s) == getIndexesCells(s).ret

\* The block regions of discarded cells: unoccupied, data_offset # 0.
Discarded(s) ==
    Let(Cells(s), LAMBDA cells :
        {cells[i][2][3] : i \in {j \in 1..Len(cells) :
            ~cells[j][2][1] /\ cells[j][2][3] # 0}})

\* Ghost: the kind of cell writeBlock(key, value) is about to use.
CellKind(s, key, value) ==
    IF keyExists(s, key).ret # 0 THEN "present"
    ELSE Let(requestFreeIndexCell(s), LAMBDA r :
         Let(readIndexCell(FRead(r.self.f, r.ret, index_cellsize)), LAMBDA c :
             IF c[3] = 0 THEN "unused"
             ELSE IF c[4] = Len(value) THEN "reused_same_length"
             ELSE "reused_other_length"))

Init ==
    /\ \E isz \in IndexSizes, bsz \in BlockSizes :
          \E s \in {newInterface(isz, bsz)} :
              /\ file = s.f
              /\ index_size = s.index_size
              /\ block_size = s.block_size
              /\ indexes = s.indexes
    /\ handle = <<>>
    /\ position = 0
    /\ shadow = [k \in Keys |-> Absent]
    /\ discards = FALSE
    /\ content = [k \in Nodes |-> Absent]
    /\ shrunk = [k \in Nodes |-> FALSE]
    /\ call = Idle
    /\ procs = <<>>
    /\ lock = 0

WriteBlock(key, value, hard) ==
    \E r \in {writeBlock(Me, key, value, hard)} :
        /\ Install(r.self)
        /\ shadow' = IF r.exc = "None" THEN [shadow EXCEPT ![key] = value] ELSE shadow
        /\ UNCHANGED <<call, procs, lock, handle, position, discards, content, shrunk>>

DiscardBlock(key) ==
    \E r \in {discardBlock(Me, key)} :
        /\ Install(r.self)
        /\ shadow' = IF r.exc = "None" THEN [shadow EXCEPT ![key] = Absent] ELSE shadow
        /\ discards' = (discards \/ r.exc = "None")
        /\ UNCHANGED <<call, procs, lock, handle, position, content, shrunk>>

\* readBlock and keyExists change nothing but the sizes getIndexes re-reads.
ReadBlock(key) ==
    \E r \in {readBlock(Me, key)} :
        /\ Install(r.self)
        /\ UNCHANGED <<call, procs, lock, handle, position, shadow, discards, content, shrunk>>

KeyExists(key) ==
    \E r \in {keyExists(Me, key)} :
        /\ Install(r.self)
        /\ UNCHANGED <<call, procs, lock, handle, position, shadow, discards, content, shrunk>>

Next ==
    \/ \E key \in Keys, value \in Values : WriteBlock(key, value, FALSE)
    \/ \E key \in Keys : WriteBlock(key, HardValue, TRUE)
    \/ \E key \in Keys : DiscardBlock(key)
    \/ \E key \in Keys : ReadBlock(key)
    \/ \E key \in Keys : KeyExists(key)

\* The block store under every sequence of calls.
Spec == Init /\ [][Next]_vars

----------------------------------------------------------------------------
(* Properties of the block store. *)

\* The keys present in the store, by the calls made so far.
Present == {k \in Keys : shadow[k] # Absent}

\* The cell at offset pos of the object's file.
CellAt(s, pos) == readIndexCell(FRead(s.f, pos, index_cellsize))

\* writeBlock(k, v) returns and readBlock(k) then returns v.
RoundTripOf(s, k, v, hard) ==
    Let(writeBlock(s, k, v, hard), LAMBDA w :
        /\ w.exc = "None"
        /\ Let(readBlock(w.self, k), LAMBDA r : r.exc = "None" /\ r.ret = v))

\* C1. Round-trip: in every reachable state, for every key k and every value
\* v with len(v) <= block_size, writeBlock(k, v) returns and readBlock(k) then
\* returns exactly v, whatever cell the key gets (its own, a never-used one,
\* or a discarded one of another data_length), hard or not.
C1_RoundTrip ==
    \A k \in Keys, v \in Probes, hard \in BOOLEAN :
        Len(v) <= block_size => RoundTripOf(Me, k, v, hard)

\* C1 happens: a key is about to be written into a discarded cell whose
\* data_length differs from the value's, another key is overwritten in place
\* by a value of another length, and both read back.
C1_Witness ==
    \E k \in Keys, v \in Values, k2 \in Present, v2 \in Values :
        /\ CellKind(Me, k, v) = "reused_other_length"
        /\ RoundTripOf(Me, k, v, FALSE)
        /\ Len(v2) <= block_size
        /\ Len(v2) # Len(shadow[k2])
        /\ RoundTripOf(Me, k2, v2, FALSE)

\* C2. Discard removes visibility: a key that was never written, or was
\* discarded and not written since, is not found by readBlock nor by
\* discardBlock, and that failing discardBlock leaves the file as it is; a
\* present key is discarded with success, after which readBlock and a second
\* discardBlock fail with BlockNotFound.
C2_DiscardRemovesVisibility ==
    \A k \in Keys :
        IF shadow[k] = Absent
        THEN /\ readBlock(Me, k).exc = "BlockNotFound"
             /\ Let(discardBlock(Me, k), LAMBDA d :
                    d.exc = "BlockNotFound" /\ d.self = Me)
        ELSE Let(discardBlock(Me, k), LAMBDA d :
                 /\ d.exc = "None"
                 /\ readBlock(d.self, k).exc = "BlockNotFound"
                 /\ Let(discardBlock(d.self, k), LAMBDA d2 :
                        d2.exc = "BlockNotFound" /\ d2.self = d.self))

\* C2 happens: after a discard, one key is absent and not found while its
\* cell region is kept as a discarded one, and a present key is discarded
\* and then not found.
C2_Witness ==
    /\ discards
    /\ Discarded(Me) # {}
    /\ \E k \in Keys \ Present : readBlock(Me, k).exc = "BlockNotFound"
    /\ \E k \in Present :
          Let(discardBlock(Me, k), LAMBDA d :
              d.exc = "None" /\ readBlock(d.self, k).exc = "BlockNotFound")

\* C3. Oversized write rejected: writeBlock(k, v) with len(v) > block_size
\* raises WriteAboveBlockSize and leaves the file byte for byte as it was:
\* the same length, the same cells and segments, and a present key still
\* reads its previous value.
C3_OversizeRejected ==
    \A k \in Keys, v \in Probes, hard \in BOOLEAN :
        Len(v) > block_size =>
            Let(writeBlock(Me, k, v, hard), LAMBDA w :
                /\ w.exc = "WriteAboveBlockSize"
                /\ w.self.f = file
                /\ Len(w.self.f) = Len(file)
                /\ Cells(w.self) = Cells(Me)
                /\ getIndexes(w.self).ret = getIndexes(Me).ret
                /\ (k \in Present => readBlock(w.self, k).ret = shadow[k]))

\* C3 happens: an oversized value is refused for a present key, and for an
\* absent key in a state with no unoccupied cell (where a write that went
\* on would add a segment and a block).
C3_Witness ==
    /\ FirstFree(Cells(Me)) = 0
    /\ \E k \in Present, k2 \in Keys \ Present, v \in Values :
          /\ Len(v) > block_size
          /\ writeBlock(Me, k, v, FALSE).exc = "WriteAboveBlockSize"
          /\ writeBlock(Me, k2, v, FALSE).exc = "WriteAboveBlockSize"

\* Some unoccupied cell has never been used (data_offset = 0).
NeverUsed(s) ==
    Let(Cells(s), LAMBDA cells :
        \E i \in 1..Len(cells) : ~cells[i][2][1] /\ cells[i][2][3] = 0)

\* C4. Slot reuse: writeBlock of a key that is not present, in a state with a
\* discarded cell, takes a discarded cell, keeps its data_offset and leaves
\* the file length as it is; with no discarded cell the file grows by one
\* block, and by one index segment more when no cell is unoccupied.
C4_SlotReuse ==
    \A k \in Keys \ Present, v \in Probes, hard \in BOOLEAN :
        Len(v) <= block_size =>
            Let(writeBlock(Me, k, v, hard), LAMBDA w :
            Let(keyExists(w.self, k).ret, LAMBDA pos :
                IF Discarded(Me) # {}
                THEN /\ Len(w.self.f) = Len(file)
                     /\ ~CellAt(Me, pos)[1]
                     /\ CellAt(Me, pos)[3] # 0
                     /\ CellAt(w.self, pos)[3] = CellAt(Me, pos)[3]
                     /\ CellAt(w.self, pos)[3] \in Discarded(Me)
                ELSE /\ CellAt(w.self, pos)[3] # 0
                     /\ Len(w.self.f) = Len(file) + block_size
                            + (IF NeverUsed(Me) THEN 0
                               ELSE index_headersize + indexes * index_cellsize)))

\* C4 happens: the index holds a discarded cell and a never-used cell, and a
\* key that is not present is written without the file growing.
C4_Witness ==
    /\ Discarded(Me) # {}
    /\ NeverUsed(Me)
    /\ \E k \in Keys \ Present, v \in Values :
          /\ Len(v) <= block_size
          /\ Len(writeBlock(Me, k, v, FALSE).self.f) = Len(file)

\* C5. Index growth: with n distinct keys written and no discard, the index
\* chain has exactly max(1, ceil(n / c)) segments, c the cells of a segment;
\* and every key present reads back the value last written to it.
C5_IndexGrowth ==
    /\ ~discards =>
          Len(getIndexes(Me).ret) = Max(1, CeilDiv(Cardinality(Present), indexes))
    /\ \A k \in Present :
          Let(readBlock(Me, k), LAMBDA r : r.exc = "None" /\ r.ret = shadow[k])

\* C5 happens: without a discard, more keys than a segment has cells were
\* written, the chain grew twice, and every key reads back.
C5_Witness ==
    /\ ~discards
    /\ Present = Keys
    /\ Len(getIndexes(Me).ret) = 3
    /\ \A k \in Keys : readBlock(Me, k).ret = shadow[k]

----------------------------------------------------------------------------
(* The state machine of the multiblock layer. *)

InitMB ==
    /\ \E isz \in IndexSizesMB, bsz \in BlockSizesMB :
          \E s \in {newInterface(isz, bsz)} :
              /\ file = s.f
              /\ index_size = s.index_size
              /\ block_size = s.block_size
              /\ indexes = s.indexes
    /\ handle = <<>>
    /\ position = 0
    /\ shadow = [k \in Keys |-> Absent]
    /\ discards = FALSE
    /\ content = [k \in Nodes |-> Absent]
    /\ shrunk = [k \in Nodes |-> FALSE]
    /\ call = Idle
    /\ procs = <<>>
    /\ lock = 0

MakeNode(key) ==
    \E r \in {makeNode(Me, key)} :
        /\ Install(r.self)
        /\ content' = IF r.exc = "None" THEN [content EXCEPT ![key] = <<>>] ELSE content
        /\ shrunk' = IF r.exc = "None" THEN [shrunk EXCEPT ![key] = FALSE] ELSE shrunk
        /\ UNCHANGED <<call, procs, lock, handle, position, shadow, discards>>

RemoveNode(key) ==
    \E r \in {removeNode(Me, key)} :
        /\ Install(r.self)
        /\ content' = IF r.exc = "None" THEN [content EXCEPT ![key] = Absent] ELSE content
        /\ UNCHANGED <<call, procs, lock, handle, position, shadow, discards, shrunk>>

NodeExists(key) ==
    \E r \in {nodeExists(Me, key)} :
        /\ Install(r.self)
        /\ UNCHANGED <<call, procs, lock, handle, position, shadow, discards, content, shrunk>>

GetHandle(key) ==
    \E r \in {getHandle(Me, key)} :
        /\ Install(r.self)
        /\ handle' = IF r.exc = "None" THEN r.ret ELSE handle
        /\ position' = IF r.exc = "None" THEN 0 ELSE position
        /\ UNCHANGED <<call, procs, lock, shadow, discards, content, shrunk>>

Tell ==
    /\ handle # <<>>
    /\ position' = tell(position)
    /\ UNCHANGED <<call, procs, lock, file, index_size, block_size, indexes, handle,
                   shadow, discards, content, shrunk>>

Seek(offset, whence) ==
    /\ handle # <<>>
    /\ \E r \in {seek(Me, handle, position, offset, whence)} :
          /\ r.pos \in Positions
          /\ Install(r.self)
          /\ position' = r.pos
    /\ UNCHANGED <<call, procs, lock, handle, shadow, discards, content, shrunk>>

Length ==
    /\ handle # <<>>
    /\ \E r \in {length(Me, handle)} : Install(r.self)
    /\ UNCHANGED <<call, procs, lock, handle, position, shadow, discards, content, shrunk>>

Truncate(size_arg) ==
    /\ handle # <<>>
    /\ \E r \in {truncate(Me, handle, size_arg)} :
          /\ Install(r.self)
          /\ \E size \in {IF size_arg = <<>> THEN Len(content[handle]) ELSE size_arg[1]} :
                /\ content' = IF r.exc = "None"
                              THEN [content EXCEPT ![handle] = FTruncate(@, size)]
                              ELSE content
                /\ shrunk' = IF r.exc = "None" /\ size < Len(content[handle])
                             THEN [shrunk EXCEPT ![handle] = TRUE]
                             ELSE shrunk
    /\ UNCHANGED <<call, procs, lock, handle, position, shadow, discards>>

Read(size_arg) ==
    /\ handle # <<>>
    /\ \E r \in {read(Me, handle, position, size_arg)} :
          /\ r.pos \in Positions
          /\ Install(r.self)
          /\ position' = r.pos
    /\ UNCHANGED <<call, procs, lock, handle, shadow, discards, content, shrunk>>

Write(b) ==
    /\ handle # <<>>
    /\ \E r \in {write(Me, handle, position, b)} :
          /\ r.pos \in Positions
          /\ Install(r.self)
          /\ position' = r.pos
          /\ content' = IF r.exc = "None"
                        THEN [content EXCEPT ![handle] = FWrite(@, position, b)]
                        ELSE content
    /\ UNCHANGED <<call, procs, lock, handle, shadow, discards, shrunk>>

NextMB ==
    \/ \E key \in Nodes : MakeNode(key)
    \/ \E key \in Nodes : RemoveNode(key)
    \/ \E key \in Nodes : NodeExists(key)
    \/ \E key \in Nodes : GetHandle(key)
    \/ Tell
    \/ \E offset \in Positions : Seek(offset, 0)
    \/ Seek(1, 1)
    \/ \E offset \in {0, 1} : Seek(offset, 2)
    \/ Length
    \/ \E size_arg \in TruncateSizes : Truncate(size_arg)
    \/ \E size_arg \in {<<>>} \cup {<<n>> : n \in 1..MaxRead} : Read(size_arg)
    \/ \E b \in WriteValues : Write(b)

\* The multiblock layer under every sequence of calls.
SpecMB == InitMB /\ [][NextMB]_vars

----------------------------------------------------------------------------
(* Properties of the multiblock layer. *)

\* The nodes that exist, by the calls made so far.
Existing == {k \in Nodes : content[k] # Absent}

\* The derived blocks of node k that are present in the store.
DerivedBlocks(s, k) ==
    {block \in 0..LastBlock : keyExists(s, constructNodeBlockKey(k, block)).ret # 0}

\* C6. Multiblock round-trip: for a node made with makeNode and written
\* through handles at any offsets (never truncated to a smaller size), the
\* length is the end of the furthest write, and seeking to any offset and
\* reading bytes below the length returns, byte for byte, the most recent
\* write that covered each position and zero where no write did.
C6_MultiblockRoundTrip ==
    \A k \in Existing :
        ~shrunk[k] =>
            /\ length(Me, k).ret = Len(content[k])
            /\ Let(read(Me, k, 0, <<>>), LAMBDA r :
                   r.exc = "None" /\ r.ret = content[k] /\ r.pos = Len(content[k]))
            /\ \A p \in Positions, n \in 0..MaxRead :
                  p + n <= Len(content[k]) =>
                      Let(read(Me, k, p, <<n>>), LAMBDA r :
                          /\ r.exc = "None"
                          /\ r.ret = PySlice(content[k], p, p + n)
                          /\ r.pos = p + n)

\* C6 happens: a node grew by a write beyond its length, a write spanning
\* blocks 0 and 1 was partly overwritten by a later write, and a read across
\* the block boundary returns the later write's byte and the earlier one's.
C6_Witness ==
    \E k \in Existing :
        /\ ~shrunk[k]
        /\ Len(content[k]) = 47
        /\ content[k][1] = 1
        /\ content[k][2] = 0
        /\ content[k][46] = 1
        /\ content[k][47] = 2
        /\ read(Me, k, 45, <<2>>).ret = <<1, 2>>

\* The sizes the properties try truncate with.
TruncateProbes == {0, 1, 46, 47}

\* The derived blocks of node k are exactly those its size takes.
BlocksOfSize(s, k) ==
    DerivedBlocks(s, k) = 0..(CeilDiv(length(s, k).ret, s.block_size) - 1)

\* C7. Truncate semantics: for a node that has exactly the blocks of its
\* size s, truncate(n) returns and length() is then n; with n above s, every
\* byte of [s, n) then reads as zero, also when the node was shrunk before
\* from a size in the same last block; with n below s, no derived block of
\* index >= ceil(n / block_size) is left.
C7_TruncateSemantics ==
    \A k \in Existing, n \in TruncateProbes :
        BlocksOfSize(Me, k) =>
            Let(length(Me, k).ret, LAMBDA size :
            Let(truncate(Me, k, <<n>>), LAMBDA t :
                /\ t.exc = "None"
                /\ length(t.self, k).ret = n
                /\ (n > size =>
                       read(t.self, k, size, <<n - size>>).ret = Zeros(n - size))
                /\ (n < size =>
                       \A block \in DerivedBlocks(t.self, k) :
                           block < CeilDiv(n, block_size))))

\* C8. Read past the end: at every position p >= 0, read(n) returns exactly
\* n bytes and does not raise, and the bytes at or beyond the node's length
\* are zero.
C8_ReadPastEnd ==
    \A k \in Existing, p \in Positions, n \in 0..MaxRead :
        Let(read(Me, k, p, <<n>>), LAMBDA r :
            /\ r.exc = "None"
            /\ Len(r.ret) = n
            /\ \A i \in 1..n : p + i - 1 >= Len(content[k]) => r.ret[i] = 0)

\* C9. RemoveNode completeness: removeNode of an absent node raises
\* NodeDoesNotExist and changes nothing; removeNode of an existing node
\* returns, after which the node does not exist, no derived block of it is
\* present, and the node made again and grown reads only zeros.
C9_RemoveNodeComplete ==
    \A k \in Nodes :
        Let(removeNode(Me, k), LAMBDA r :
            IF k \notin Existing
            THEN r.exc = "NodeDoesNotExist" /\ r.self = Me
            ELSE /\ r.exc = "None"
                 /\ ~nodeExists(r.self, k).ret
                 /\ DerivedBlocks(r.self, k) = {}
                 /\ Let(truncate(makeNode(r.self, k).self, k, <<47>>), LAMBDA t :
                        read(t.self, k, 0, <<47>>).ret = Zeros(47)))

\* C10. End-relative seek: on a handle of an existing node, seek(offset, 2)
\* with offset # 0 raises UnsupportedOperation and leaves the position and
\* the store as they were, and seek(0, 2) returns the node's length, as the
\* metadata holds it, and sets the position to it.
C10_EndRelativeSeek ==
    \A k \in Existing, p \in Positions :
        /\ \A offset \in {-1, 1, 2} :
              Let(seek(Me, k, p, offset, 2), LAMBDA r :
                  r.exc = "UnsupportedOperation" /\ r.pos = p /\ r.self = Me)
        /\ Let(seek(Me, k, p, 0, 2), LAMBDA r :
               /\ r.exc = "None"
               /\ r.pos = getNodeProperties(Me, k).ret.size
               /\ r.pos = Len(content[k])
               /\ r.ret = r.pos
               /\ r.self = Me)

\* C10 happens: a handle is open on a node of two blocks, at a position that
\* is not the node's length, and seek(0, 2) takes it to the length.
C10_Witness ==
    /\ handle \in Existing
    /\ Len(content[handle]) = 47
    /\ position = 1
    /\ seek(Me, handle, position, 0, 2).pos = 47
    /\ seek(Me, handle, position, 1, 2).exc = "UnsupportedOperation"

----------------------------------------------------------------------------
(* The block store, opened again. *)

\* Interface(path, isz, bsz) on the file as it is; the new object replaces
\* the old one.
Reopen(isz, bsz) ==
    \E s \in {openInterface(file, isz, bsz)} :
        /\ Install(s)
        /\ UNCHANGED <<call, procs, lock, handle, position, shadow, discards, content, shrunk>>

NextReopen ==
    \/ Next
    \/ \E isz \in ReopenIndexSizes, bsz \in ReopenBlockSizes : Reopen(isz, bsz)

\* The block store under every sequence of calls and constructions.
SpecReopen == Init /\ [][NextReopen]_vars

\* The sizes the first header of the file holds.
StoredSizes(f) ==
    Let(readIndexHeader(FRead(f, 0, index_headersize)), LAMBDA h : <<h[3], h[4]>>)

\* C13. Reopen re-derives geometry: an Interface constructed on the existing
\* file with any index_size and block_size has the sizes of the file's
\* header and the cells per segment that follow from them, the file is
\* byte for byte as before, every key present reads back its value, and
\* writeBlock refuses exactly the values longer than the stored block_size.
C13_ReopenGeometry ==
    \A isz \in ReopenIndexSizes, bsz \in ReopenBlockSizes :
        Let(openInterface(file, isz, bsz), LAMBDA r :
            /\ r.f = file
            /\ <<r.index_size, r.block_size>> = StoredSizes(file)
            /\ r.indexes = StoredSizes(file)[1] \div index_cellsize
            /\ r = Me
            /\ \A k \in Present : readBlock(r, k).ret = shadow[k]
            /\ \A k \in Keys, v \in Probes :
                  (writeBlock(r, k, v, FALSE).exc = "WriteAboveBlockSize")
                      <=> (Len(v) > StoredSizes(file)[2]))

\* C13 happens: a file whose index has grown and that holds a value of two
\* bytes is opened with another index_size and block_size 1; the value
\* reads back and a value of two bytes is still accepted.
C13_Witness ==
    \E isz \in ReopenIndexSizes, k \in Present :
        /\ isz # index_size
        /\ Len(getIndexes(Me).ret) >= 2
        /\ Len(shadow[k]) = 2
        /\ Let(openInterface(file, isz, 1), LAMBDA r :
               /\ readBlock(r, k).ret = shadow[k]
               /\ writeBlock(r, k, <<1, 2>>, FALSE).exc = "None")

----------------------------------------------------------------------------
(* The layout of the file. *)

\* The index segments of the chain as <<first offset, offset after the last>>.
Segments(s) ==
    Let(getIndexes(s), LAMBDA g :
        [j \in 1..Len(g.ret) |->
            <<g.ret[j][1],
              g.ret[j][1] + index_headersize + g.self.indexes * index_cellsize>>] \o <<>>)

\* The cells that reference a block region, as <<segment number, data_offset,
\* data_length, cell offset>>.
Referencing(s) ==
    Let(getIndexesCells(s), LAMBDA g :
        {<<((i - 1) \div g.self.indexes) + 1, g.ret[i][2][3], g.ret[i][2][4], g.ret[i][1]>> :
            i \in {j \in 1..Len(g.ret) : g.ret[j][2][3] # 0}})

----------------------------------------------------------------------------
(* The position of a handle. *)

\* C16. Handle position: on a handle of an existing node at any position
\* p >= 0, seek(offset) and seek(offset, 1) leave a position that is not
\* negative, read(n) moves the position to p + n, and read() with the size
\* omitted never moves the position backwards, also when p is beyond the
\* node's length.
C16_PositionNonNegative ==
    \A k \in Existing, p \in Positions :
        /\ \A offset \in {-1, 0, 1} :
              /\ seek(Me, k, p, offset, 0).pos >= 0
              /\ (p + offset >= 0 => seek(Me, k, p, offset, 1).pos >= 0)
        /\ \A n \in 0..MaxRead :
              Let(read(Me, k, p, <<n>>), LAMBDA r :
                  r.exc = "None" => r.pos = p + n)
        /\ Let(read(Me, k, p, <<>>), LAMBDA r : r.pos >= p)

----------------------------------------------------------------------------
(* The cells of a key. *)

\* The offsets of the occupied cells that carry hash h.
OccupiedWith(s, h) ==
    Let(Cells(s), LAMBDA cells :
        {cells[i][1] : i \in {j \in 1..Len(cells) :
            cells[j][2][1] /\ cells[j][2][2] = h}})

\* C17. Unique occupied cell: in every reachable state at most one occupied
\* cell carries the hash of any key, every occupied cell carries the hash of
\* a key that is present, keyExists returns 0 for a key that is not present
\* and the offset of the key's only occupied cell for a key that is, and
\* that offset is never 0: it lies beyond the header of the first segment.
C17_UniqueOccupiedCell ==
    /\ \A k \in Keys :
          Let(OccupiedWith(Me, xxh64(k)), LAMBDA O :
              /\ Cardinality(O) <= 1
              /\ (k \in Present <=> O # {})
              /\ keyExists(Me, k).ret \in (IF O = {} THEN {0} ELSE O)
              /\ (k \in Present => keyExists(Me, k).ret >= index_headersize))
    /\ Let(Cells(Me), LAMBDA cells :
           \A i \in 1..Len(cells) :
               cells[i][2][1] => \E k \in Present : cells[i][2][2] = xxh64(k))

\* C17 happens: after a discard and the reuse of the discarded cell, the
\* index has grown, every key is present, no cell is left discarded, and a
\* key whose only occupied cell lies in a later segment is found there.
C17_Witness ==
    /\ discards
    /\ Discarded(Me) = {}
    /\ Present = Keys
    /\ Len(Segments(Me)) >= 2
    /\ \E k \in Present :
          /\ keyExists(Me, k).ret >= Segments(Me)[2][1]
          /\ OccupiedWith(Me, xxh64(k)) = {keyExists(Me, k).ret}

----------------------------------------------------------------------------
(* The block regions. *)

\* The region [a, a + n) lies wholly before or wholly after [b, b + m).
Apart(a, n, b, m) == a + n <= b \/ b + m <= a

\* C18. Block regions are disjoint: every cell with data_offset # 0,
\* occupied or discarded, has its region of block_size bytes inside the
\* file and its data_length at most block_size; the regions of two such
\* cells do not overlap, and no region overlaps an index segment. And
\* writeBlock or discardBlock of one key, whatever it returns, leaves the
\* value readBlock returns for every other present key as it was.
C18_RegionsDisjoint ==
    /\ Let(Referencing(Me), LAMBDA R :
       Let(Segments(Me), LAMBDA S :
           \A c \in R :
               /\ c[2] + block_size <= Len(file)
               /\ c[3] <= block_size
               /\ \A d \in R :
                     c[4] # d[4] => Apart(c[2], block_size, d[2], block_size)
               /\ \A j \in 1..Len(S) :
                     Apart(c[2], block_size, S[j][1], S[j][2] - S[j][1])))
    /\ \A k \in Keys :
          /\ Let(discardBlock(Me, k).self, LAMBDA d :
                 \A k2 \in Present \ {k} : readBlock(d, k2).ret = shadow[k2])
          /\ \A v \in Probes, hard \in BOOLEAN :
                Let(writeBlock(Me, k, v, hard).self, LAMBDA w :
                    \A k2 \in Present \ {k} : readBlock(w, k2).ret = shadow[k2])

\* C18 happens: the file holds two segments, an occupied region and a
\* discarded one, and writing a full block to a key that is not present
\* (taking the discarded region) leaves the value of a present key, whose
\* region is the one next to it, as it was.
C18_Witness ==
    /\ Len(Segments(Me)) >= 2
    /\ Discarded(Me) # {}
    /\ \E k \in Keys \ Present, k2 \in Present :
          /\ Len(shadow[k2]) = block_size
          /\ \E c \in Referencing(Me), d \in Referencing(Me) :
                /\ c[4] = keyExists(Me, k2).ret
                /\ d[2] \in Discarded(Me)
                /\ (c[2] + block_size = d[2] \/ d[2] + block_size = c[2])
          /\ Let(writeBlock(Me, k, HardValue, FALSE), LAMBDA w :
                 /\ w.exc = "None"
                 /\ Len(w.self.f) = Len(file)
                 /\ readBlock(w.self, k2).ret = shadow[k2])

----------------------------------------------------------------------------
(* The structure of a node. *)

\* C19. Node structure: in every state reached by makeNode, write, truncate
\* and removeNode calls, the metadata of every existing node has
\* blocks = ceil(size / block_size), the derived block of index i is present
\* exactly when i < blocks, every present derived block has data_length =
\* block_size, and no read or write inside [0, size) raises BlockNotFound.
C19_NodeStructure ==
    \A k \in Existing :
        Let(getNodeProperties(Me, k).ret, LAMBDA props :
            /\ props.blocks = CeilDiv(props.size, block_size)
            /\ DerivedBlocks(Me, k) = 0..(props.blocks - 1)
            /\ \A block \in DerivedBlocks(Me, k) :
                  CellAt(Me, keyExists(Me, constructNodeBlockKey(k, block)).ret)[4]
                      = block_size
            /\ \A p \in Positions, n \in 1..MaxRead :
                  p + n <= props.size =>
                      /\ read(Me, k, p, <<n>>).exc # "BlockNotFound"
                      /\ write(Me, k, p, Zeros(n)).exc # "BlockNotFound")

----------------------------------------------------------------------------
(* The frame of write. *)

\* A second node, made and written across the boundary of its blocks 0 and 1.
OtherNode == <<"m">>
OtherBytes == <<7, 7>>
WithOtherNode(s) == write(makeNode(s, OtherNode).self, OtherNode, 45, OtherBytes).self

\* All the bytes of node k, by its length.
NodeBytes(s, k) == read(s, k, 0, <<length(s, k).ret>>).ret

\* write(b) at position p of node k in store s keeps to its frame.
WriteFrameOf(s, k, p, b) ==
    Let(NodeBytes(s, k), LAMBDA before :
    Let(write(s, k, p, b), LAMBDA w :
        /\ w.exc = "None"
        /\ w.ret = Len(b)
        /\ w.pos = p + Len(b)
        /\ length(w.self, k).ret = Max(Len(before), p + Len(b))
        /\ Let(NodeBytes(w.self, k), LAMBDA after :
               /\ Len(after) = Max(Len(before), p + Len(b))
               /\ \A i \in 1..Len(b) : after[p + i] = b[i]
               /\ \A i \in 1..Len(before) :
                     (i <= p \/ i > p + Len(b)) => after[i] = before[i])
        /\ length(w.self, OtherNode).ret = length(s, OtherNode).ret
        /\ NodeBytes(w.self, OtherNode) = NodeBytes(s, OtherNode)))

\* C20. Write frame: write(b) at position p on a node of size s returns
\* len(b), moves the position to p + len(b), makes the size
\* max(s, p + len(b)) and the bytes of [p, p + len(b)) those of b; every
\* byte below s outside that range reads as before, and the size and the
\* bytes of another node are as before; at the positions tried elsewhere
\* and at position 255, where the node grows to 256 bytes.
C20_WriteFrame ==
    Let(WithOtherNode(Me), LAMBDA s :
        \A k \in Existing, p \in Positions \cup {255}, b \in WriteValues :
            WriteFrameOf(s, k, p, b))

----------------------------------------------------------------------------
(* writeBlock of a key that is not present, with the loop of             *)
(* requestFreeIndexCell taken one pass at a time.                         *)

InitAlloc ==
    /\ \E isz \in AllocIndexSizes, bsz \in BlockSizes :
          \E s \in {newInterface(isz, bsz)} :
              /\ file = s.f
              /\ index_size = s.index_size
              /\ block_size = s.block_size
              /\ indexes = s.indexes
    /\ handle = <<>>
    /\ position = 0
    /\ shadow = [k \in Keys |-> Absent]
    /\ discards = FALSE
    /\ content = [k \in Nodes |-> Absent]
    /\ shrunk = [k \in Nodes |-> FALSE]
    /\ call = Idle
    /\ procs = <<>>
    /\ lock = 0

\* writeBlock up to its call of requestFreeIndexCell: the value fits and
\* keyExists finds no cell of the key.
WriteBlockCall(key, value) ==
    /\ call.at = "idle"
    /\ ~tooLarge(Me, value)
    /\ \E e \in {keyExists(Me, key)} :
          /\ e.ret = 0
          /\ Install(e.self)
    /\ call' = [at |-> "scan", key |-> key, value |-> value, grown |-> 0, ret |-> 0]
    /\ UNCHANGED <<handle, position, shadow, discards, content, shrunk, procs, lock>>

\* requestFreeIndexCell, one pass of its for loop over getIndexesCells():
\* the first unoccupied cell is returned, or the loop falls through.
RequestScan ==
    /\ call.at = "scan"
    /\ \E g \in {getIndexesCells(Me)} :
          /\ Install(g.self)
          /\ \E k \in {FirstFree(g.ret)} :
                call' = IF k # 0 THEN [call EXCEPT !.at = "found", !.ret = k]
                        ELSE [call EXCEPT !.at = "grow"]
    /\ UNCHANGED <<handle, position, shadow, discards, content, shrunk, procs, lock>>

\* requestFreeIndexCell, the createIndex() at the end of a pass of while True
RequestGrow ==
    /\ call.at = "grow"
    /\ call.grown < MaxGrow
    /\ Install(createIndex(Me))
    /\ call' = [call EXCEPT !.at = "scan", !.grown = @ + 1]
    /\ UNCHANGED <<handle, position, shadow, discards, content, shrunk, procs, lock>>

\* writeBlock after requestFreeIndexCell returned: the cell is claimed and
\* the value stored.
WriteBlockReturn ==
    /\ call.at = "found"
    /\ file' = storeValue(claimCell(Me, call.ret, call.key, FALSE),
                          call.ret, call.key, call.value)
    /\ shadow' = [shadow EXCEPT ![call.key] = call.value]
    /\ call' = Idle
    /\ UNCHANGED <<index_size, block_size, indexes, handle, position, discards,
                   content, shrunk, procs, lock>>

\* discardBlock between two calls of writeBlock
DiscardIdle(key) ==
    /\ call.at = "idle"
    /\ DiscardBlock(key)

NextAlloc ==
    \/ \E key \in Keys, value \in Values : WriteBlockCall(key, value)
    \/ RequestScan
    \/ RequestGrow
    \/ WriteBlockReturn
    \/ \E key \in Keys : DiscardIdle(key)

\* The block store with requestFreeIndexCell taken pass by pass.
SpecAlloc == InitAlloc /\ [][NextAlloc]_vars

\* C14. AllocateFreeCell termination: whatever index_size the store was
\* constructed with, one requestFreeIndexCell calls createIndex at most
\* once, since the pass after a createIndex finds an unoccupied cell, and
\* the offset it returns is that of an unoccupied cell.
C14_OneGrowthSuffices ==
    /\ call.grown <= 1
    /\ (call.at = "scan" /\ call.grown > 0 => FirstFree(Cells(Me)) # 0)
    /\ (call.at = "found" => ~CellAt(Me, call.ret)[1])

----------------------------------------------------------------------------
(* Two processes that construct an Interface on the same path, which has  *)
(* no file (or an empty one) at the start, and then write blocks.  Both   *)
(* give the same index_size and block_size, so the fields of the two      *)
(* objects are equal and held once.  A file that is missing and a file of *)
(* length 0 take the same branch of the constructor and are both <<>>.    *)

InitOpen ==
    /\ file = <<>>
    /\ \E isz \in OpenIndexSizes, bsz \in OpenBlockSizes :
          /\ index_size = isz
          /\ block_size = bsz
          /\ indexes = isz \div index_cellsize
    /\ handle = <<>>
    /\ position = 0
    /\ shadow = [k \in Keys |-> Absent]
    /\ discards = FALSE
    /\ content = [k \in Nodes |-> Absent]
    /\ shrunk = [k \in Nodes |-> FALSE]
    /\ call = Idle
    /\ procs = [p \in Procs |-> [at |-> "check", new |-> FALSE]]
    /\ lock = 0

\* __init__, the test of line 43: os.path.isfile and os.path.getsize. The
\* lock does not exist yet (it is made on line 47).
ConstructorCheck(p) ==
    /\ procs[p].at = "check"
    /\ procs' = [procs EXCEPT ![p] = [at |-> IF Len(file) = 0 THEN "create" ELSE "init",
                                      new |-> Len(file) = 0]]
    /\ UNCHANGED <<file, index_size, block_size, indexes, handle, position,
                   shadow, discards, content, shrunk, call, lock>>

\* __init__, line 44: open(self.path, 'wb+').close() leaves a file of
\* length 0, whatever the file holds by now. No lock is held.
ConstructorCreate(p) ==
    /\ procs[p].at = "create"
    /\ file' = <<>>
    /\ procs' = [procs EXCEPT ![p].at = "init"]
    /\ UNCHANGED <<index_size, block_size, indexes, handle, position,
                   shadow, discards, content, shrunk, call, lock>>

\* __init__, lines 47-53: createIndex() if the file was found new, else
\* getIndexes(); each takes the lock for its whole body.
ConstructorInit(p) ==
    /\ procs[p].at = "init"
    /\ lock = 0
    /\ Install(IF procs[p].new THEN createIndex(Me) ELSE getIndexes(Me).self)
    /\ procs' = [procs EXCEPT ![p].at = "ready"]
    /\ UNCHANGED <<handle, position, shadow, discards, content, shrunk, call, lock>>

\* writeBlock by a process whose constructor has returned, under the lock
OpenWriteBlock(p, key, value) ==
    /\ procs[p].at = "ready"
    /\ lock = 0
    /\ \E r \in {writeBlock(Me, key, value, FALSE)} :
          /\ Install(r.self)
          /\ shadow' = IF r.exc = "None" THEN [shadow EXCEPT ![key] = value] ELSE shadow
    /\ UNCHANGED <<handle, position, discards, content, shrunk, call, procs, lock>>

NextOpen ==
    \/ \E p \in Procs : ConstructorCheck(p)
    \/ \E p \in Procs : ConstructorCreate(p)
    \/ \E p \in Procs : ConstructorInit(p)
    \/ \E p \in Procs, key \in OpenKeys, value \in OpenValues : OpenWriteBlock(p, key, value)

\* Two processes opening the same path, in every interleaving.
SpecOpen == InitOpen /\ [][NextOpen]_vars

\* C11. Multi-process safety including open: once a constructor has
\* returned, the file starts with an index segment at offset 0; the index
\* has that one segment only (the keys written fit its cells), so the
\* initial segment was made once; and every value a process wrote still
\* reads back, so no step of the other process's constructor truncated or
\* overwrote it.
C11_OpenSafe ==
    /\ ((\E p \in Procs : procs[p].at = "ready") => Len(Segments(Me)) >= 1)
    /\ Len(Segments(Me)) <= 1
    /\ \A k \in Present : readBlock(Me, k).ret = shadow[k]

----------------------------------------------------------------------------
(* Two processes that have opened the same file and call the store.  A    *)
(* call is taken one file access at a time: a process holds the list of   *)
(* the accesses its call still has to make (todo), as the code of the     *)
(* call makes them in order, and the locals those accesses leave.  Both   *)
(* objects were opened on the same file, so their fields are equal and    *)
(* held once.  FileLock is exclusive between processes and re-entrant     *)
(* for its holder: a call takes it at its outermost `with self.lock` and  *)
(* gives it back when that block is left, by return or by exception.      *)

\* A call: its name and arguments (n is the size of truncate, the position
\* of write).
Call(name, key, value, n) == [name |-> name, key |-> key, value |-> value, n |-> n]
NoCall == Call("", <<>>, <<>>, 0)

\* The calls the processes make.
CallsMP ==
    {Call("writeBlock", k, <<1>>, 0) : k \in {<<"a">>, <<"b">>}}
        \cup {Call("writeBlock", <<"a">>, Zeros(47), 0),
              Call("discardBlock", <<"a">>, <<>>, 0),
              Call("makeNode", <<"n">>, <<>>, 0),
              Call("removeNode", <<"n">>, <<>>, 0),
              Call("truncate", <<"n">>, <<>>, 0),
              Call("truncate", <<"n">>, <<>>, 47),
              Call("write", <<"n">>, <<2, 2>>, 45)}

\* One access (or one decision between accesses) of a call.
I(kind, key, value, n) == [kind |-> kind, key |-> key, value |-> value, n |-> n]

RECURSIVE Flatten(_)
Flatten(ss) == IF ss = <<>> THEN <<>> ELSE Head(ss) \o Flatten(Tail(ss))

\* for block in range(a, b): the accesses F[block], in order
ForRange(a, b, F) == Flatten([j \in 1..Max(b - a, 0) |-> F[a + j - 1]] \o <<>>)

\* writeBlock(key, value): the size test, keyExists, the claim of a cell
\* for a key that is not present, and the write of the length and value
WriteBlockSteps(key, value) ==
    <<I("size", key, value, 0), I("find", key, <<>>, 0),
      I("claim", key, <<>>, 0), I("store", key, value, 0)>>

\* discardBlock(key): keyExists, and the write of the cell
DiscardBlockSteps(key) == <<I("find", key, <<>>, 0), I("clear", key, <<>>, 0)>>

\* The accesses a call starts with; what follows them depends on what they
\* find.
Program(c) ==
    CASE c.name = "writeBlock" -> WriteBlockSteps(c.key, c.value)
      [] c.name = "discardBlock" -> DiscardBlockSteps(c.key)
      [] c.name = "makeNode" -> <<I("find", c.key, <<>>, 0), I("mknod", c.key, <<>>, 0)>>
      [] c.name = "removeNode" -> <<I("find", c.key, <<>>, 0), I("rmnod", c.key, <<>>, 0)>>
      [] c.name = "truncate" -> <<I("fetch", c.key, <<>>, 0), I("trunc", c.key, <<>>, c.n)>>
      [] c.name = "write" -> <<I("fetch", c.key, <<>>, 0), I("write", c.key, c.value, c.n)>>

\* The call as one step: the file and the exception it leaves.
Atomic(s, c) ==
    Let(CASE c.name = "writeBlock" -> writeBlock(s, c.key, c.value, FALSE)
          [] c.name = "discardBlock" -> discardBlock(s, c.key)
          [] c.name = "makeNode" -> makeNode(s, c.key)
          [] c.name = "removeNode" -> removeNode(s, c.key)
          [] c.name = "truncate" -> truncate(s, c.key, <<c.n>>)
          [] c.name = "write" -> write(s, c.key, c.n, c.value),
        LAMBDA r : [f |-> r.self.f, exc |-> r.exc])

\* A process between two calls.
Resting(calls) ==
    [at |-> "idle", call |-> NoCall, todo |-> <<>>, ke |-> 0, val |-> <<>>,
     buf |-> <<>>, exc |-> "None", expect |-> <<>>, raced |-> FALSE, calls |-> calls]

InitMP ==
    /\ \E isz \in IndexSizesMP, bsz \in BlockSizesMP :
          \E s \in {newInterface(isz, bsz)} :
              /\ file = s.f
              /\ index_size = s.index_size
              /\ block_size = s.block_size
              /\ indexes = s.indexes
    /\ handle = <<>>
    /\ position = 0
    /\ shadow = [k \in Keys |-> Absent]
    /\ discards = FALSE
    /\ content = [k \in Nodes |-> Absent]
    /\ shrunk = [k \in Nodes |-> FALSE]
    /\ call = Idle
    /\ procs = [p \in Procs |-> Resting(0)]
    /\ lock = 0

\* What the actions of a process leave alone.
Ghosts == <<handle, position, shadow, discards, content, shrunk, call>>
Fields == <<index_size, block_size, indexes>>

\* Process p goes on as record r.
Becomes(p, r) == procs' = [procs EXCEPT ![p] = r]

\* The access process p makes next, and the accesses after it.
Cur(p) == Head(procs[p].todo)
Rest(p) == Tail(procs[p].todo)

\* Process p is inside its call, holding the lock, and its next access is
\* of this kind.
Ready(p, kind) ==
    /\ procs[p].at = "in"
    /\ procs[p].todo # <<>>
    /\ Cur(p).kind = kind

\* An exception ends the accesses of the call.
Raises(p, exc) == Becomes(p, [procs[p] EXCEPT !.todo = <<>>, !.exc = exc])

\* Process p goes on with the accesses todo.
GoesOn(p, todo) == Becomes(p, [procs[p] EXCEPT !.todo = todo])

\* The call of process p races the call another process has made and not
\* finished: makeNode of the same node, which does not exist, or writeBlock
\* of another key, neither key being present.
Races(p, c) ==
    \E q \in Procs \ {p} :
        /\ procs[q].at \in {"called", "in"}
        /\ procs[q].call.name = c.name
        /\ \/ /\ c.name = "makeNode"
              /\ procs[q].call.key = c.key
              /\ content[c.key] = Absent
           \/ /\ c.name = "writeBlock"
              /\ procs[q].call.key # c.key
              /\ shadow[c.key] = Absent
              /\ shadow[procs[q].call.key] = Absent
              /\ ~tooLarge(Me, c.value)
              /\ ~tooLarge(Me, procs[q].call.value)

\* Process p calls c.
Invoke(p, c) ==
    /\ procs[p].at = "idle"
    /\ procs[p].calls < MaxCalls
    /\ Becomes(p, [procs[p] EXCEPT !.at = "called", !.call = c, !.todo = Program(c),
                                   !.raced = Races(p, c), !.calls = @ + 1])
    /\ UNCHANGED <<file, Fields, Ghosts, lock>>

\* writeBlock called by the caller: the size test of lines 172-178 comes
\* before `with self.lock`.
SizeOutside(p) ==
    /\ procs[p].at = "called"
    /\ procs[p].call.name = "writeBlock"
    /\ procs[p].todo # <<>>
    /\ Cur(p).kind = "size"
    /\ Becomes(p, IF tooLarge(Me, Cur(p).value)
                  THEN Resting(procs[p].calls)
                  ELSE [procs[p] EXCEPT !.todo = Rest(p)])
    /\ UNCHANGED <<file, Fields, Ghosts, lock>>

\* A faulty lock: it is given to every process that asks.
acquirableAlways(p) == TRUE

\* FileLock.acquire returns when no other process holds the lock.
acquirable(p) == lock \in {0, p}

\* The outermost `with self.lock` (`with self.interface.lock`) of a call
Acquire(p) ==
    /\ procs[p].at = "called"
    /\ ~(procs[p].call.name = "writeBlock" /\ Cur(p).kind = "size")
    /\ acquirable(p)
    /\ lock' = p
    /\ Becomes(p, [procs[p] EXCEPT !.at = "in", !.expect = Atomic(Me, procs[p].call)])
    /\ UNCHANGED <<file, Fields, Ghosts>>

\* writeBlock called inside a call (_setNodeProperties, truncate, write):
\* its size test
StepSize(p) ==
    /\ Ready(p, "size")
    /\ IF tooLarge(Me, Cur(p).value) THEN Raises(p, "WriteAboveBlockSize")
       ELSE GoesOn(p, Rest(p))
    /\ UNCHANGED <<file, Fields, Ghosts, lock>>

\* keyExists(key): key_exists
StepFind(p) ==
    /\ Ready(p, "find")
    /\ \E e \in {keyExists(Me, Cur(p).key)} :
          /\ Install(e.self)
          /\ Becomes(p, [procs[p] EXCEPT !.todo = Rest(p), !.ke = e.ret])
    /\ UNCHANGED <<Ghosts, lock>>

\* writeBlock, lines 183-205: a key that is not present gets a free cell
StepClaim(p) ==
    /\ Ready(p, "claim")
    /\ IF procs[p].ke # 0
       THEN GoesOn(p, Rest(p)) /\ UNCHANGED <<file, Fields>>
       ELSE \E r \in {requestFreeIndexCell(Me)} :
                /\ Install(WithFile(r.self, claimCell(r.self, r.ret, Cur(p).key, FALSE)))
                /\ Becomes(p, [procs[p] EXCEPT !.todo = Rest(p), !.ke = r.ret])
    /\ UNCHANGED <<Ghosts, lock>>

\* writeBlock, lines 207-219: the length and the value are written
StepStore(p) ==
    /\ Ready(p, "store")
    /\ file' = storeValue(file, procs[p].ke, Cur(p).key, Cur(p).value)
    /\ GoesOn(p, Rest(p))
    /\ UNCHANGED <<Fields, Ghosts, lock>>

\* discardBlock, lines 225-239: the cell is written as unoccupied
StepClear(p) ==
    /\ Ready(p, "clear")
    /\ IF procs[p].ke = 0
       THEN Raises(p, "BlockNotFound") /\ UNCHANGED file
       ELSE /\ \E cell \in {readIndexCell(FRead(file, procs[p].ke, index_cellsize))} :
                  file' = FWrite(file, procs[p].ke,
                                 constructIndexCell(FALSE, <<>>, cell[3], cell[4]))
            /\ GoesOn(p, Rest(p))
    /\ UNCHANGED <<Fields, Ghosts, lock>>

\* readBlock(key): the value is kept (n = 0: the pickle of a node's
\* metadata), or joined to the blocks _readrange has read (n = 1)
StepFetch(p) ==
    /\ Ready(p, "fetch")
    /\ \E r \in {readBlock(Me, Cur(p).key)} :
          /\ Install(r.self)
          /\ IF r.exc # "None" THEN Raises(p, r.exc)
             ELSE Becomes(p, [procs[p] EXCEPT
                                 !.todo = Rest(p),
                                 !.val = IF Cur(p).n = 0 THEN r.ret ELSE @,
                                 !.buf = IF Cur(p).n = 1 THEN @ \o r.ret ELSE @])
    /\ UNCHANGED <<Ghosts, lock>>

\* makeNode after nodeExists: NodeExists, or _setNodeProperties
StepMknod(p) ==
    /\ Ready(p, "mknod")
    /\ IF procs[p].ke # 0 THEN Raises(p, "NodeExists")
       ELSE GoesOn(p, WriteBlockSteps(Cur(p).key,
                          pickle_dumps([key |-> Cur(p).key, blocks |-> 0, size |-> 0]))
                      \o Rest(p))
    /\ UNCHANGED <<file, Fields, Ghosts, lock>>

\* removeNode after nodeExists: NodeDoesNotExist, or _getNodeProperties
StepRmnod(p) ==
    /\ Ready(p, "rmnod")
    /\ IF procs[p].ke = 0 THEN Raises(p, "NodeDoesNotExist")
       ELSE GoesOn(p, <<I("fetch", Cur(p).key, <<>>, 0), I("rmblk", Cur(p).key, <<>>, 0)>>
                      \o Rest(p))
    /\ UNCHANGED <<file, Fields, Ghosts, lock>>

\* removeNode after _getNodeProperties: discardBlock of the node's key and
\* of the derived key of every block in range(details['blocks'])
StepRmblk(p) ==
    /\ Ready(p, "rmblk")
    /\ GoesOn(p, DiscardBlockSteps(Cur(p).key)
                 \o ForRange(0, pickle_loads(procs[p].val).blocks,
                        [block \in 0..LastBlock |->
                            DiscardBlockSteps(constructNodeBlockKey(Cur(p).key, block))])
                 \o Rest(p))
    /\ UNCHANGED <<file, Fields, Ghosts, lock>>

\* truncate(size) after length(): the blocks to write or to discard, then
\* _getNodeProperties and the metadata
StepTrunc(p) ==
    /\ Ready(p, "trunc")
    /\ \E final_blocks \in {CeilDiv(Cur(p).n, block_size)},
          current_blocks \in {CeilDiv(pickle_loads(procs[p].val).size, block_size)} :
          GoesOn(p, (IF final_blocks > current_blocks
                     THEN ForRange(0, final_blocks,
                              [block \in 0..LastBlock |->
                                  <<I("find", constructNodeBlockKey(Cur(p).key, block), <<>>, 0),
                                    I("alloc", constructNodeBlockKey(Cur(p).key, block), <<>>, 0)>>])
                     ELSE IF final_blocks < current_blocks
                     THEN ForRange(final_blocks, current_blocks,
                              [block \in 0..LastBlock |->
                                  DiscardBlockSteps(constructNodeBlockKey(Cur(p).key, block))])
                     ELSE <<>>)
                    \o <<I("fetch", Cur(p).key, <<>>, 0), I("setsz", Cur(p).key, <<>>, Cur(p).n)>>
                    \o Rest(p))
    /\ UNCHANGED <<file, Fields, Ghosts, lock>>

\* truncate, lines 365-369: a block that is not present is written as zeros
StepAlloc(p) ==
    /\ Ready(p, "alloc")
    /\ GoesOn(p, (IF procs[p].ke = 0
                  THEN WriteBlockSteps(Cur(p).key, Zeros(block_size))
                  ELSE <<>>) \o Rest(p))
    /\ UNCHANGED <<file, Fields, Ghosts, lock>>

\* truncate, lines 378-388: the metadata with the new size and block count
StepSetsz(p) ==
    /\ Ready(p, "setsz")
    /\ GoesOn(p, WriteBlockSteps(Cur(p).key,
                     pickle_dumps([pickle_loads(procs[p].val) EXCEPT
                                      !.size = Cur(p).n,
                                      !.blocks = CeilDiv(Cur(p).n, block_size)]))
                 \o Rest(p))
    /\ UNCHANGED <<file, Fields, Ghosts, lock>>

\* write(b) after length(): truncate when the node is too short, then
\* _readrange of the blocks the bytes fall in
StepWrite(p) ==
    /\ Ready(p, "write")
    /\ \E pos \in {Cur(p).n}, b \in {Cur(p).value} :
          Becomes(p, [procs[p] EXCEPT
              !.buf = <<>>,
              !.todo =
                  (IF pickle_loads(procs[p].val).size < pos + Len(b)
                   THEN <<I("fetch", Cur(p).key, <<>>, 0),
                          I("trunc", Cur(p).key, <<>>, pos + Len(b))>>
                   ELSE <<>>)
                  \o ForRange(FloorDiv(pos, block_size), CeilDiv(pos + Len(b), block_size),
                         [block \in 0..LastBlock |->
                             <<I("fetch", constructNodeBlockKey(Cur(p).key, block), <<>>, 1)>>])
                  \o <<I("splice", Cur(p).key, b, pos)>>
                  \o Rest(p)])
    /\ UNCHANGED <<file, Fields, Ghosts, lock>>

\* write, lines 455-480: the bytes are put into the buffer, and the buffer
\* is written back block by block
StepSplice(p) ==
    /\ Ready(p, "splice")
    /\ \E pos \in {Cur(p).n}, b \in {Cur(p).value} :
       \E start_block \in {FloorDiv(pos, block_size)} :
       \E chunk_buffer \in {PySliceAssign(procs[p].buf, pos - start_block * block_size,
                                          pos - start_block * block_size + Len(b), b)} :
          GoesOn(p, ForRange(start_block, CeilDiv(pos + Len(b), block_size),
                        [block \in 0..LastBlock |->
                            WriteBlockSteps(constructNodeBlockKey(Cur(p).key, block),
                                PySlice(chunk_buffer, (block - start_block) * block_size,
                                        (block - start_block + 1) * block_size))])
                    \o Rest(p))
    /\ UNCHANGED <<file, Fields, Ghosts, lock>>

\* The call of process p has made its last access.
Done(p) == procs[p].at = "in" /\ procs[p].todo = <<>>

\* The outermost `with self.lock` is left, by return or by exception; the
\* ghosts take the call's effect.
Release(p) ==
    /\ Done(p)
    /\ lock' = 0
    /\ \E c \in {procs[p].call}, ok \in {procs[p].exc = "None"} :
          /\ shadow' = IF ok /\ c.name = "writeBlock" THEN [shadow EXCEPT ![c.key] = c.value]
                       ELSE IF ok /\ c.name = "discardBlock"
                       THEN [shadow EXCEPT ![c.key] = Absent]
                       ELSE shadow
          /\ content' = IF ok /\ c.name = "makeNode" THEN [content EXCEPT ![c.key] = <<>>]
                        ELSE IF ok /\ c.name = "removeNode"
                        THEN [content EXCEPT ![c.key] = Absent]
                        ELSE content
    /\ Becomes(p, Resting(procs[p].calls))
    /\ UNCHANGED <<file, Fields, handle, position, discards, shrunk, call>>

NextMP ==
    \/ \E p \in Procs, c \in CallsMP : Invoke(p, c)
    \/ \E p \in Procs : SizeOutside(p)
    \/ \E p \in Procs : Acquire(p)
    \/ \E p \in Procs : StepSize(p)
    \/ \E p \in Procs : StepFind(p)
    \/ \E p \in Procs : StepClaim(p)
    \/ \E p \in Procs : StepStore(p)
    \/ \E p \in Procs : StepClear(p)
    \/ \E p \in Procs : StepFetch(p)
    \/ \E p \in Procs : StepMknod(p)
    \/ \E p \in Procs : StepRmnod(p)
    \/ \E p \in Procs : StepRmblk(p)
    \/ \E p \in Procs : StepTrunc(p)
    \/ \E p \in Procs : StepAlloc(p)
    \/ \E p \in Procs : StepSetsz(p)
    \/ \E p \in Procs : StepWrite(p)
    \/ \E p \in Procs : StepSplice(p)
    \/ \E p \in Procs : Release(p)

\* Two processes calling the store, in every interleaving.
SpecMP == InitMP /\ [][NextMP]_vars

\* C12. Linearizable operations: of two processes that have opened the
\* same file, at most one is inside a call (between the first and the last
\* file access of writeBlock, discardBlock, makeNode, removeNode, truncate
\* or write), and it holds the lock; when a call has made its last access,
\* the file and the exception are those the call gives as one step from
\* the file it found when it took the lock, so the calls take effect one
\* after the other in the order they took the lock. makeNode(k) returns
\* exactly when no makeNode(k) has returned since k was last absent, and
\* raises NodeExists otherwise, so of two concurrent makeNode(k) one
\* returns and one raises. writeBlock of a key that was not present leaves
\* the key the only owner of its cell, no two cells share a block region,
\* and the keys other calls wrote read back their values.
C12_Linearizable ==
    /\ \A p \in Procs :
          /\ procs[p].at = "in" => lock = p
          /\ Done(p) =>
                /\ file = procs[p].expect.f
                /\ procs[p].exc = procs[p].expect.exc
                /\ (procs[p].call.name = "makeNode" =>
                       /\ procs[p].exc \in {"None", "NodeExists"}
                       /\ (procs[p].exc = "None" <=> content[procs[p].call.key] = Absent))
                /\ (procs[p].call.name = "writeBlock" =>
                       /\ procs[p].exc = "None"
                       /\ OccupiedWith(Me, xxh64(procs[p].call.key)) = {procs[p].ke}
                       /\ readBlock(Me, procs[p].call.key).ret = procs[p].call.value
                       /\ \A k \in Present \ {procs[p].call.key} :
                             /\ keyExists(Me, k).ret # procs[p].ke
                             /\ readBlock(Me, k).ret = shadow[k])
    /\ \A p \in Procs, q \in Procs : p # q => ~(procs[p].at = "in" /\ procs[q].at = "in")
    /\ Let(Referencing(Me), LAMBDA R :
           \A c \in R, d \in R :
               c[4] # d[4] => Apart(c[2], block_size, d[2], block_size))

\* C12 happens: both processes have written a key that was not present,
\* and the keys have different cells; then both called makeNode of a node
\* that did not exist, one call being made while the other was not
\* finished, and the call that took the lock second has found the node and
\* raises NodeExists.
C12_Witness ==
    /\ {<<"a">>, <<"b">>} \subseteq Present
    /\ keyExists(Me, <<"a">>).ret # keyExists(Me, <<"b">>).ret
    /\ \E p \in Procs :
          /\ Done(p)
          /\ procs[p].raced
          /\ procs[p].call.name = "makeNode"
          /\ procs[p].exc = "NodeExists"
          /\ content[procs[p].call.key] # Absent
====
